---- MODULE Spec2Model ----
(***************************************************************************)
(* chainer/dataset/convert.py: concatenation of examples into batch arrays *)
(* (concat_examples, _concat_arrays, _concat_arrays_with_padding) and the  *)
(* double-buffered asynchronous transfer (ConcatWithAsyncTransfer,         *)
(* Conveyer).                                                              *)
(*                                                                         *)
(* Three specifications share the variables:                               *)
(*   SpecConcat    the pure concatenation functions applied to a batch,    *)
(*   SpecConveyer  one Conveyer driven directly by a client,               *)
(*   Spec          one ConcatWithAsyncTransfer (and concat_examples)       *)
(*                 driven by a client, with the accelerator completing     *)
(*                 the asynchronous copies concurrently.                   *)
(***************************************************************************)
EXTENDS Integers, Sequences, FiniteSets, TLC

\* Python's None.  An optional integer (a device id, a padding value, a loop
\* variable) is None or the record Some(n).
None == <<>>

Some(n) == [v |-> n]

(***************************************************************************)
(* Bounds of the model.                                                    *)
(***************************************************************************)
\* longest batch handed to the concatenation functions
MaxBatchLen == 2
\* largest extent of one axis of an example array
MaxExtent == 2
\* number of transfer calls made on the directly driven Conveyer
MaxTransfers == 5
\* number of calls made on the ConcatWithAsyncTransfer object
MaxCalls == 4

(***************************************************************************)
(* Arrays.  An ndarray is a record [shape, dtype, dev, data]; data maps an *)
(* index tuple (0-based, one component per axis) to a scalar and dev is the *)
(* device the array lives on (-1: host memory).  Scalars are               *)
(* fixed-point numbers counted in halves, so that 2 stands for 1.0 and 1   *)
(* for 0.5: an int32 array holds even numbers only.                        *)
(***************************************************************************)
DTypes == {"int32", "float64"}

\* example arrays have rank 0 (a scalar), 1 or 2
Ranks == {0, 1, 2}

Max(a, b) == IF a >= b THEN a ELSE b

\* numpy's conversion of a scalar to a dtype: float -> int truncates toward 0
Cast(dtype, v) ==
    IF dtype = "int32"
    THEN IF v >= 0 THEN (v \div 2) * 2 ELSE -(((-v) \div 2) * 2)
    ELSE v

\* numpy's result type of mixing two dtypes
PromoteTypes(d1, d2) == IF d1 = d2 THEN d1 ELSE "float64"

\* every index tuple of an array of the given shape (0-based)
RECURSIVE Indices(_)
Indices(shape) ==
    IF shape = <<>> THEN {<<>>}
    ELSE {<<i>> \o rest : i \in 0..(Head(shape) - 1), rest \in Indices(Tail(shape))}

RECURSIVE Prod(_)
Prod(shape) == IF shape = <<>> THEN 1 ELSE Head(shape) * Prod(Tail(shape))

ItemSize(dtype) == IF dtype = "int32" THEN 4 ELSE 8

\* ndarray.size and ndarray.nbytes
Size(a) == Prod(a.shape)
NBytes(a) == Size(a) * ItemSize(a.dtype)

(***************************************************************************)
(* _concat_arrays and _concat_arrays_with_padding.  An example is an       *)
(* ndarray or a built-in scalar [py |-> "int" | "float", v |-> value].     *)
(* A raised exception is a record [exc |-> name].                          *)
(***************************************************************************)
Raise(name) == [exc |-> name]

IsRaise(x) == "exc" \in DOMAIN x

IsNdarray(x) == "shape" \in DOMAIN x

\* numpy.asarray on a list of built-in scalars, seen through arrays[i]: each
\* element is a rank-0 array of the list's common dtype
AsArray(arrays) ==
    LET dtype == IF \A i \in 1..Len(arrays) : arrays[i].py = "int"
                 THEN "int32" ELSE "float64"
    IN  [i \in 1..Len(arrays) |->
            [shape |-> <<>>, dtype |-> dtype, dev |-> -1,
             data |-> [idx \in {<<>>} |-> Cast(dtype, arrays[i].v)]]]

\* numpy.maximum(shape, array.shape, shape), for shapes of equal length
ElementwiseMax(s, t) == [k \in 1..Len(s) |-> Max(s[k], t[k])]

\* the shape of the first array, whatever the others are
CommonShape_First(shape, rest) == shape

\* lines 133-136: the loop over arrays[1:] that grows shape
RECURSIVE CommonShape(_, _)
CommonShape(shape, rest) ==
    IF rest = <<>> THEN shape
    ELSE CommonShape(IF shape # Head(rest).shape
                     THEN ElementwiseMax(shape, Head(rest).shape)
                     ELSE shape,
                     Tail(rest))

\* whether idx lies in the region tuple(slice(dim) for dim in shape)
InSlices(idx, shape) == \A k \in 1..Len(shape) : idx[k] < shape[k]

\* lines 142-145: the loop "result[(i,) + slices] = src" from example i on
RECURSIVE CopyExamples(_, _, _)
CopyExamples(result, arrays, i) ==
    IF i > Len(arrays) THEN result
    ELSE LET src == arrays[i]
             assigned ==
                 [idx \in DOMAIN result.data |->
                     IF Head(idx) = i - 1 /\ InSlices(Tail(idx), src.shape)
                     THEN Cast(result.dtype, src.data[Tail(idx)])
                     ELSE result.data[idx]]
         IN  CopyExamples([result EXCEPT !.data = assigned], arrays, i + 1)

\* xp.full(shape, padding, dtype), on device dev (-1: the host)
Full(shape, padding, dtype, dev) ==
    [shape |-> shape, dtype |-> dtype, dev |-> dev,
     data |-> [idx \in Indices(shape) |-> Cast(dtype, padding)]]

_concat_arrays_with_padding(arrays, padding) ==
    LET shape == <<Len(arrays)>> \o CommonShape(arrays[1].shape, Tail(arrays))
        result == Full(shape, padding.v, arrays[1].dtype, arrays[1].dev)
    IN  CopyExamples(result, arrays, 1)

RECURSIVE ResultType(_)
ResultType(arrays) ==
    IF Len(arrays) = 1 THEN arrays[1].dtype
    ELSE PromoteTypes(arrays[1].dtype, ResultType(Tail(arrays)))

\* xp.concatenate([array[None] for array in arrays])
Concatenate(arrays) ==
    IF \E i \in 1..Len(arrays) : arrays[i].shape # arrays[1].shape
    THEN Raise("ValueError")
    ELSE LET dtype == ResultType(arrays)
             shape == <<Len(arrays)>> \o arrays[1].shape
         IN  [shape |-> shape, dtype |-> dtype, dev |-> arrays[1].dev,
              data |-> [idx \in Indices(shape) |->
                           Cast(dtype, arrays[Head(idx) + 1].data[Tail(idx)])]]

_concat_arrays(arrays, padding) ==
    LET nd == IF ~IsNdarray(arrays[1]) THEN AsArray(arrays) ELSE arrays
    IN  IF padding # None
        THEN _concat_arrays_with_padding(nd, padding)
        ELSE Concatenate(nd)

(***************************************************************************)
(* to_device and concat_examples.  A tuple example is [tuple |-> <<..>>],  *)
(* a mapping example is [dict |-> [key |-> ..]]; a per-slot padding has    *)
(* the same two shapes and a scalar padding is None or Some(value).      *)
(***************************************************************************)
IsTuple(x) == "tuple" \in DOMAIN x
IsDict(x) == "dict" \in DOMAIN x

to_device(device, x) ==
    IF device = None THEN x
    ELSE IF device.v < 0 THEN [x EXCEPT !.dev = -1]
    ELSE [x EXCEPT !.dev = device.v]

\* [example[i] for example in batch], for a tuple position or a mapping key
Column(batch, i) ==
    [n \in 1..Len(batch) |->
        IF IsTuple(batch[n]) THEN batch[n].tuple[i + 1] ELSE batch[n].dict[i]]

\* lines 94-95 and 192-193
TuplePadding(padding, first_elem) ==
    IF IsTuple(padding) THEN padding.tuple
    ELSE [k \in 1..Len(first_elem.tuple) |-> padding]

\* lines 105-106 and 210-211
DictPadding(padding, first_elem) ==
    IF IsDict(padding) THEN padding.dict
    ELSE [key \in DOMAIN first_elem.dict |-> padding]

\* the first exception raised by a sequence of per-slot results, if any
FirstRaise(results) ==
    IF \E k \in 1..Len(results) : IsRaise(results[k])
    THEN results[CHOOSE k \in 1..Len(results) :
                    /\ IsRaise(results[k])
                    /\ \A j \in 1..(k - 1) : ~IsRaise(results[j])]
    ELSE None

concat_examples(batch, device, padding) ==
    IF Len(batch) = 0 THEN Raise("ValueError")
    ELSE LET first_elem == batch[1] IN
      IF IsTuple(first_elem)
      THEN LET pad == TuplePadding(padding, first_elem)
               conc == [k \in 1..Len(first_elem.tuple) |->
                           _concat_arrays(Column(batch, k - 1), pad[k])]
           IN  IF FirstRaise(conc) # None THEN FirstRaise(conc)
               ELSE [tuple |-> [k \in 1..Len(conc) |-> to_device(device, conc[k])]]
      ELSE IF IsDict(first_elem)
      THEN LET pad == DictPadding(padding, first_elem)
               conc == [key \in DOMAIN first_elem.dict |->
                           _concat_arrays(Column(batch, key), pad[key])]
           IN  IF \E key \in DOMAIN conc : IsRaise(conc[key])
               THEN Raise("ValueError")
               ELSE [dict |-> [key \in DOMAIN conc |-> to_device(device, conc[key])]]
      ELSE LET conc == _concat_arrays(batch, padding)
           IN  IF IsRaise(conc) THEN conc ELSE to_device(device, conc)

(***************************************************************************)
(* State.                                                                  *)
(***************************************************************************)
VARIABLES
    \* the accelerator runtime
    mem,        \* every buffer allocated so far; a reference is [ref |-> index]
    inflight,   \* the asynchronous copies issued on the stream and not yet done
    \* ConcatWithAsyncTransfer: the object
    stream,     \* self.stream
    conveyer,   \* self.conveyer: slot -> Conveyer [device, stream, array_set]
    \* ConcatWithAsyncTransfer.__call__ / concat_examples: the running call
    pc,         \* position of the call ("idle": no call is running)
    fn,         \* the function the client called last ("": none yet)
    batch, device, padding,   \* its arguments
    i,          \* the local variable i: None while unbound, else Some(n)
    result,     \* the local variable result
    outcome,    \* what the last call returned or raised; None while it runs
    calls,      \* number of calls the client has made
    syncs,      \* the device synchronizations performed since the call began
                \* (Conveyer client: since the last transfer finished)
    \* Conveyer.__call__: the running call
    cpc,        \* position of the call ("idle": no call is running)
    self,       \* slot of the Conveyer being called
    array,      \* its argument
    pin_array, cp_array,      \* its local variables
    popped,     \* the pair array_set.pop(0) returned
    allocated,  \* whether the call has allocated a new pair
    ret,        \* what the call returned or raised
    \* the client of a directly driven Conveyer
    log,        \* per finished transfer: its argument and what happened
    \* the two-slot ring buffer of the design notes, run beside array_set
    ring, index

vars == <<mem, inflight, stream, conveyer, pc, fn, batch, device, padding, i,
          result, outcome, calls, syncs, cpc, self, array, pin_array, cp_array,
          popped, allocated, ret, log, ring, index>>

runtimeVars == <<mem, inflight>>
objectVars == <<stream, conveyer>>
callVars == <<pc, fn, batch, device, padding, i, result, outcome>>
frameVars == <<self, array, pin_array, cp_array, popped, allocated, ret>>
ringVars == <<ring, index>>

Ref(n) == [ref |-> n]

\* [None, None]
NoPair == <<None, None>>

\* everything but the two objects and the arguments
InitIdle ==
    /\ mem = <<>> /\ inflight = <<>>
    /\ pc = "idle" /\ fn = "" /\ device = None
    /\ i = None /\ result = None /\ outcome = None
    /\ calls = 0 /\ syncs = {}
    /\ cpc = "idle" /\ self = 0 /\ array = None
    /\ pin_array = None /\ cp_array = None /\ popped = None
    /\ allocated = FALSE /\ ret = None
    /\ log = <<>> /\ ring = <<NoPair, NoPair>> /\ index = 0

(***************************************************************************)
(* The accelerator runtime: pinned and device buffers, the asynchronous    *)
(* host-to-device copy and the device synchronization.                     *)
(***************************************************************************)
\* the stream a non-negative device gets on the first call (line 188), or the
\* one the client passes in
NewStream == [non_blocking |-> TRUE]

\* one asynchronous copy is carried out: the device buffer takes the pinned
\* buffer's contents
CompleteOne(m, copy) == [m EXCEPT ![copy.dst].data = m[copy.src].data]

RECURSIVE Drain(_, _)
Drain(m, queue) ==
    IF queue = <<>> THEN m ELSE Drain(CompleteOne(m, Head(queue)), Tail(queue))

\* runtime.deviceSynchronize(): blocks until every copy issued so far is done
deviceSynchronize ==
    /\ mem' = Drain(mem, inflight)
    /\ inflight' = <<>>

\* the accelerator finishes the oldest copy of the stream
Complete ==
    /\ inflight # <<>>
    /\ mem' = CompleteOne(mem, Head(inflight))
    /\ inflight' = Tail(inflight)
    /\ UNCHANGED <<objectVars, callVars, calls, syncs, cpc, frameVars, log, ringVars>>

\* "dst[...] = src" of numpy: src is broadcast to the shape of dst (leading
\* axes of extent 1 are added or dropped) and cast to its dtype; None when
\* the shapes cannot be broadcast
BroadcastData(src, dst) ==
    LET q == Len(src.shape)
        off == Len(dst.shape) - q
        fits == \A k \in 1..q :
                    IF k + off < 1 THEN src.shape[k] = 1
                    ELSE src.shape[k] \in {1, dst.shape[k + off]}
        from(idx) == [k \in 1..q |->
                        IF k + off < 1 \/ src.shape[k] = 1 THEN 0 ELSE idx[k + off]]
    IN  IF fits
        THEN [idx \in Indices(dst.shape) |-> Cast(dst.dtype, src.data[from(idx)])]
        ELSE None

(***************************************************************************)
(* Conveyer.                                                               *)
(***************************************************************************)
\* a Conveyer that starts with a single pair (no double buffering)
Conveyer_SingleBuffer(dev, strm) ==
    [device |-> dev, stream |-> strm, array_set |-> <<NoPair>>]

\* Conveyer.__init__
Conveyer(dev, strm) ==
    [device |-> dev, stream |-> strm, array_set |-> <<NoPair, NoPair>>]

\* only a missing device or a missing stream makes the transfer synchronous
IsSynchronous_NoneOnly(c) ==
    c.device = None \/ c.stream = None

\* line 250: the transfer is synchronous
IsSynchronous(c) ==
    c.device = None \/ c.device.v < 0 \/ c.stream = None

\* the popped pinned array is kept whatever its byte size
KeepsPinned_AnySize(pin, a) ==
    pin # None

\* lines 254-258: the popped pinned array is kept
KeepsPinned(pin, a) ==
    pin # None /\ NBytes(mem[pin.ref]) = NBytes(a)

\* lines 249-258: Conveyer.__call__ on the Conveyer of slot k of registry reg,
\* up to the "with" statement
ConveyerCall(reg, k, a) ==
    /\ self' = k /\ array' = a /\ allocated' = FALSE
    /\ IF IsSynchronous(reg[k])
       THEN /\ ret' = to_device(reg[k].device, a)
            /\ cpc' = "done"
            /\ conveyer' = reg
            /\ pin_array' = None /\ cp_array' = None /\ popped' = None
       ELSE IF reg[k].array_set = <<>>
       THEN /\ ret' = Raise("IndexError")
            /\ cpc' = "raised"
            /\ conveyer' = reg
            /\ pin_array' = None /\ cp_array' = None /\ popped' = None
       ELSE LET pair == Head(reg[k].array_set)
                keep == KeepsPinned(pair[1], a)
            IN  /\ conveyer' = [reg EXCEPT ![k].array_set = Tail(@)]
                /\ popped' = pair
                /\ pin_array' = IF keep THEN pair[1] ELSE None
                /\ cp_array' = pair[2]
                /\ cpc' = IF keep THEN "copy" ELSE "sync"
                /\ ret' = None

\* the allocation is reached without synchronizing the device
AllocSync_NoDeviceSync ==
    /\ cpc = "sync"
    /\ syncs' = syncs \cup {"allocate"}
    /\ cpc' = "alloc"
    /\ UNCHANGED <<runtimeVars, objectVars, callVars, calls, frameVars, log, ringVars>>

\* line 274: the synchronization that precedes an allocation
AllocSync ==
    /\ cpc = "sync"
    /\ deviceSynchronize
    /\ syncs' = syncs \cup {"allocate"}
    /\ cpc' = "alloc"
    /\ UNCHANGED <<objectVars, callVars, calls, frameVars, log, ringVars>>

\* lines 275-280: a pinned array and a device array shaped like the argument
Allocate ==
    /\ cpc = "alloc"
    /\ mem' = mem \o
          << [kind |-> "pinned", shape |-> array.shape, dtype |-> array.dtype,
              dev |-> -1, data |-> None],
             [kind |-> "device", shape |-> array.shape, dtype |-> array.dtype,
              dev |-> conveyer[self].device.v, data |-> None] >>
    /\ pin_array' = Ref(Len(mem) + 1)
    /\ cp_array' = Ref(Len(mem) + 2)
    /\ allocated' = TRUE
    /\ cpc' = "copy"
    /\ UNCHANGED <<inflight, objectVars, callVars, calls, syncs, self, array,
                   popped, ret, log, ringVars>>

\* line 282: pin_array[...] = array
HostCopy ==
    /\ cpc = "copy"
    /\ LET data == BroadcastData(array, mem[pin_array.ref])
       IN  IF data = None
           THEN /\ ret' = Raise("ValueError")
                /\ cpc' = "raised"
                /\ mem' = mem
           ELSE /\ mem' = [mem EXCEPT ![pin_array.ref].data = data]
                /\ cpc' = "set"
                /\ ret' = ret
    /\ UNCHANGED <<inflight, objectVars, callVars, calls, syncs, self, array,
                   pin_array, cp_array, popped, allocated, log, ringVars>>

\* line 283: cp_array.set(pin_array, self.stream)
AsyncCopy ==
    /\ cpc = "set"
    /\ inflight' = Append(inflight,
                          [src |-> pin_array.ref, dst |-> cp_array.ref, call |-> calls])
    /\ cpc' = "append"
    /\ UNCHANGED <<mem, objectVars, callVars, calls, syncs, frameVars, log, ringVars>>

\* lines 285-286
AppendReturn ==
    /\ cpc = "append"
    /\ conveyer' = [conveyer EXCEPT
                       ![self].array_set = Append(@, <<pin_array, cp_array>>)]
    /\ ret' = cp_array
    /\ cpc' = "done"
    /\ UNCHANGED <<runtimeVars, stream, callVars, calls, syncs, self, array,
                   pin_array, cp_array, popped, allocated, log, ringVars>>

\* synchronize returns without waiting for the device
synchronize_NoWait(k) ==
    IF conveyer[k].stream # None
    THEN syncs' = syncs \cup {"synchronize"} /\ UNCHANGED runtimeVars
    ELSE UNCHANGED <<runtimeVars, syncs>>

\* Conveyer.synchronize on the Conveyer of slot k
synchronize(k) ==
    IF conveyer[k].stream # None
    THEN deviceSynchronize /\ syncs' = syncs \cup {"synchronize"}
    ELSE UNCHANGED <<runtimeVars, syncs>>


RECURSIVE Offset(_, _)
Offset(idx, shape) ==
    IF idx = <<>> THEN 0
    ELSE Head(idx) * Prod(Tail(shape)) + Offset(Tail(idx), Tail(shape))

\* a host array with the given contents, listed in row-major order
Ndarray(shape, dtype, flat) ==
    [shape |-> shape, dtype |-> dtype, dev |-> -1,
     data |-> [idx \in Indices(shape) |-> flat[Offset(idx, shape) + 1]]]

(***************************************************************************)
(* ConcatWithAsyncTransfer.__call__, one step per loop iteration; the      *)
(* Conveyer call of an iteration runs through the Conveyer steps above.    *)
(***************************************************************************)
\* self.conveyer with a Conveyer for slot k, created if there is none yet
\* (lines 196-197)
WithConveyer(k) ==
    IF k \in DOMAIN conveyer THEN conveyer
    ELSE [j \in DOMAIN conveyer \cup {k} |->
            IF j = k THEN Conveyer(device, stream) ELSE conveyer[j]]

\* the stream is created before the batch is found to be empty
Call_StreamFirst(b, d, p) ==
    /\ pc = "idle" /\ cpc = "idle"
    /\ calls < MaxCalls
    /\ calls' = calls + 1
    /\ fn' = "ConcatWithAsyncTransfer"
    /\ batch' = b /\ device' = d
    /\ i' = None
    /\ syncs' = {}
    /\ stream' = IF d # None /\ d.v >= 0 /\ stream = None THEN NewStream ELSE stream
    /\ IF Len(b) = 0
       THEN /\ outcome' = Raise("ValueError")
            /\ padding' = p
            /\ UNCHANGED <<pc, result>>
       ELSE IF IsTuple(b[1])
       THEN /\ result' = <<>>
            /\ padding' = TuplePadding(p, b[1])
            /\ pc' = "tuple_loop"
            /\ outcome' = None
       ELSE IF IsDict(b[1])
       THEN /\ result' = <<>>
            /\ padding' = DictPadding(p, b[1])
            /\ pc' = "dict_loop"
            /\ outcome' = None
       ELSE /\ LET a == _concat_arrays(b, p)
               IN  outcome' = IF IsRaise(a) THEN a ELSE to_device(d, a)
            /\ padding' = p
            /\ UNCHANGED <<pc, result>>
    /\ UNCHANGED <<runtimeVars, conveyer, cpc, frameVars, log, ringVars>>

\* lines 181-193 and 208-211, and the whole call for a batch of plain arrays
\* (line 227)
Call(b, d, p) ==
    /\ pc = "idle" /\ cpc = "idle"
    /\ calls < MaxCalls
    /\ calls' = calls + 1
    /\ fn' = "ConcatWithAsyncTransfer"
    /\ batch' = b /\ device' = d
    /\ i' = None
    /\ syncs' = {}
    /\ IF Len(b) = 0
       THEN /\ outcome' = Raise("ValueError")
            /\ padding' = p
            /\ UNCHANGED <<stream, pc, result>>
       ELSE /\ stream' = IF d # None /\ d.v >= 0 /\ stream = None
                         THEN NewStream ELSE stream
            /\ IF IsTuple(b[1])
               THEN /\ result' = <<>>
                    /\ padding' = TuplePadding(p, b[1])
                    /\ pc' = "tuple_loop"
                    /\ outcome' = None
               ELSE IF IsDict(b[1])
               THEN /\ result' = <<>>
                    /\ padding' = DictPadding(p, b[1])
                    /\ pc' = "dict_loop"
                    /\ outcome' = None
               ELSE /\ LET a == _concat_arrays(b, p)
                       IN  outcome' = IF IsRaise(a) THEN a ELSE to_device(d, a)
                    /\ padding' = p
                    /\ UNCHANGED <<pc, result>>
    /\ UNCHANGED <<runtimeVars, conveyer, cpc, frameVars, log, ringVars>>

\* lines 195-200: one iteration of the first loop of the tuple branch, up to
\* the "with" statement of the Conveyer call
TupleIter ==
    /\ pc = "tuple_loop" /\ cpc = "idle"
    /\ Len(result) < Len(batch[1].tuple)
    /\ LET n == Len(result)
           a == _concat_arrays(Column(batch, n), padding[n + 1])
       IN  /\ i' = Some(n)
           /\ IF IsRaise(a)
              THEN /\ conveyer' = WithConveyer(n)
                   /\ outcome' = a
                   /\ pc' = "idle"
                   /\ UNCHANGED <<cpc, frameVars>>
              ELSE /\ ConveyerCall(WithConveyer(n), n, a)
                   /\ pc' = "tuple_call"
                   /\ outcome' = outcome
    /\ UNCHANGED <<runtimeVars, stream, fn, batch, device, padding, result,
                   calls, syncs, log, ringVars>>

\* every slot is synchronized right after its copy was issued
TupleAppend_SyncEach ==
    /\ pc = "tuple_call" /\ cpc \in {"done", "raised"}
    /\ cpc' = "idle"
    /\ IF cpc = "raised"
       THEN outcome' = ret /\ pc' = "idle" /\ result' = result
       ELSE result' = Append(result, ret) /\ pc' = "tuple_loop" /\ outcome' = outcome
    /\ synchronize(self)
    /\ UNCHANGED <<objectVars, fn, batch, device, padding, i,
                   calls, frameVars, log, ringVars>>

\* line 201, or the exception of the Conveyer call leaving __call__
TupleAppend ==
    /\ pc = "tuple_call" /\ cpc \in {"done", "raised"}
    /\ cpc' = "idle"
    /\ IF cpc = "raised"
       THEN outcome' = ret /\ pc' = "idle" /\ result' = result
       ELSE result' = Append(result, ret) /\ pc' = "tuple_loop" /\ outcome' = outcome
    /\ UNCHANGED <<runtimeVars, objectVars, fn, batch, device, padding, i,
                   calls, syncs, frameVars, log, ringVars>>

\* "for k in slots: self.conveyer[k].synchronize()": the first Conveyer that
\* has a stream synchronizes the device, the later ones find nothing to wait
\* for
SynchronizeEach(slots) ==
    IF \E k \in slots : conveyer[k].stream # None
    THEN deviceSynchronize /\ syncs' = syncs \cup {"synchronize"}
    ELSE UNCHANGED <<runtimeVars, syncs>>

\* the tuple is returned without synchronizing
TupleSyncReturn_NoSync ==
    /\ pc = "tuple_loop" /\ cpc = "idle"
    /\ Len(result) = Len(batch[1].tuple)
    /\ i' = IF Len(result) = 0 THEN i ELSE Some(Len(result) - 1)
    /\ outcome' = [tuple |-> result]
    /\ pc' = "idle"
    /\ UNCHANGED <<runtimeVars, syncs, objectVars, fn, batch, device, padding, result,
                   calls, cpc, frameVars, log, ringVars>>

\* lines 203-206
TupleSyncReturn ==
    /\ pc = "tuple_loop" /\ cpc = "idle"
    /\ Len(result) = Len(batch[1].tuple)
    /\ SynchronizeEach(0..(Len(result) - 1))
    /\ i' = IF Len(result) = 0 THEN i ELSE Some(Len(result) - 1)
    /\ outcome' = [tuple |-> result]
    /\ pc' = "idle"
    /\ UNCHANGED <<objectVars, fn, batch, device, padding, result, calls, cpc,
                   frameVars, log, ringVars>>

\* lines 213-219: one iteration of the first loop of the mapping branch.  It
\* reads the local variable i, which only the tuple branch binds.
DictIter ==
    /\ pc = "dict_loop" /\ cpc = "idle"
    /\ DOMAIN batch[1].dict # {}
    /\ IF i = None
       THEN /\ outcome' = Raise("UnboundLocalError")
            /\ conveyer' = conveyer
       ELSE /\ conveyer' = WithConveyer(i.v)
            /\ outcome' = Raise("KeyError")
    /\ pc' = "idle"
    /\ UNCHANGED <<runtimeVars, stream, fn, batch, device, padding, i, result,
                   calls, syncs, cpc, frameVars, log, ringVars>>

\* lines 221-224, reached when the first example has no key
DictSyncReturn ==
    /\ pc = "dict_loop" /\ cpc = "idle"
    /\ DOMAIN batch[1].dict = {}
    /\ outcome' = [dict |-> result]
    /\ pc' = "idle"
    /\ UNCHANGED <<runtimeVars, objectVars, fn, batch, device, padding, i, result,
                   calls, syncs, cpc, frameVars, log, ringVars>>

\* a call of concat_examples
CallConcatExamples(b, d, p) ==
    /\ pc = "idle" /\ cpc = "idle"
    /\ calls < MaxCalls
    /\ calls' = calls + 1
    /\ fn' = "concat_examples"
    /\ batch' = b /\ device' = d /\ padding' = p
    /\ outcome' = concat_examples(b, d, p)
    /\ UNCHANGED <<runtimeVars, objectVars, pc, i, result, syncs, cpc, frameVars,
                   log, ringVars>>

(***************************************************************************)
(* Spec: a client constructs one ConcatWithAsyncTransfer and calls it, and *)
(* concat_examples, with batches of every structure.                       *)
(***************************************************************************)
E1 == Ndarray(<<1>>, "int32", <<2>>)
E2 == Ndarray(<<2>>, "int32", <<4, 6>>)

Tuple1(a) == [tuple |-> <<a>>]
Tuple2(a, b) == [tuple |-> <<a, b>>]

\* the empty batch; one-slot and two-slot tuple batches, the last one ragged
\* in its second slot; a mapping batch and one whose example has no key; a
\* batch of plain arrays
Batches ==
    { <<>>,
      <<Tuple1(E1)>>, <<Tuple1(E2)>>, <<Tuple1(E1), Tuple1(E1)>>,
      <<Tuple2(E1, E1)>>, <<Tuple2(E1, E1), Tuple2(E1, E2)>>,
      <<[dict |-> [x |-> E1]]>>, <<[dict |-> <<>>]>>,
      <<E1>> }

Devices == {None, Some(-1), Some(0)}

Paddings == {None, Some(0)}

Init ==
    /\ InitIdle
    /\ batch = <<>> /\ padding = None
    /\ conveyer = <<>>
    /\ stream \in {None, NewStream}

Next ==
    \/ \E b \in Batches, d \in Devices, p \in Paddings : Call(b, d, p)
    \/ \E b \in Batches, d \in Devices, p \in Paddings : CallConcatExamples(b, d, p)
    \/ TupleIter
    \/ TupleAppend
    \/ TupleSyncReturn
    \/ DictIter
    \/ DictSyncReturn
    \/ AllocSync
    \/ Allocate
    \/ HostCopy
    \/ AsyncCopy
    \/ AppendReturn
    \/ Complete

Spec == Init /\ [][Next]_vars

(***************************************************************************)
(* SpecConveyer: a client constructs one Conveyer (slot 0) and calls it    *)
(* and its synchronize method in any order, while the accelerator carries  *)
(* out the copies.  The client keeps a log of the finished transfers.      *)
(***************************************************************************)
\* the arrays the client transfers: two of the same shape, one of the same
\* byte size and another shape, one of the same byte size and another dtype,
\* one of another byte size
TransferArrays ==
    { Ndarray(<<1, 2>>, "int32", <<2, 4>>),
      Ndarray(<<1, 2>>, "int32", <<6, 8>>),
      Ndarray(<<2, 1>>, "int32", <<2, 4>>),
      Ndarray(<<1>>, "float64", <<3>>),
      Ndarray(<<3>>, "int32", <<2, 4, 6>>) }

ConveyerDevices == {None, Some(-1), Some(0)}

InitConveyer ==
    /\ InitIdle
    /\ batch = <<>> /\ padding = None
    /\ \E d \in ConveyerDevices, st \in {None, NewStream} :
          /\ stream = st
          /\ conveyer = [k \in {0} |-> Conveyer(d, st)]

\* the slot the ring buffer selects for the next transfer
RingSelect == ring[index + 1]

\* the ring buffer after a transfer: the selected slot holds the pair the
\* transfer used (a raising transfer leaves the slot as it was) and the
\* index is toggled
RingAfter(raised, pair) ==
    /\ ring' = IF raised THEN ring ELSE [ring EXCEPT ![index + 1] = pair]
    /\ index' = 1 - index

ClientTransfer ==
    /\ cpc = "idle"
    /\ calls < MaxTransfers
    /\ calls' = calls + 1
    /\ \E a \in TransferArrays : ConveyerCall(conveyer, 0, a)
    /\ UNCHANGED <<runtimeVars, stream, callVars, syncs, log, ringVars>>

ClientCollect ==
    /\ cpc \in {"done", "raised"}
    /\ log' = Append(log, [array |-> array, ret |-> ret, allocated |-> allocated,
                           popped |-> popped, pair |-> <<pin_array, cp_array>>])
    /\ cpc' = "idle"
    /\ IF IsSynchronous(conveyer[0])
       THEN UNCHANGED ringVars
       ELSE RingAfter(cpc = "raised", <<pin_array, cp_array>>)
    /\ syncs' = {}
    /\ UNCHANGED <<runtimeVars, objectVars, callVars, calls, frameVars>>

ClientSynchronize ==
    /\ cpc = "idle"
    /\ synchronize(0)
    /\ UNCHANGED <<objectVars, callVars, calls, cpc, frameVars, log, ringVars>>

NextConveyer ==
    \/ ClientTransfer
    \/ ClientCollect
    \/ ClientSynchronize
    \/ AllocSync
    \/ Allocate
    \/ HostCopy
    \/ AsyncCopy
    \/ AppendReturn
    \/ Complete

SpecConveyer == InitConveyer /\ [][NextConveyer]_vars

(***************************************************************************)
(* Properties of the Conveyer (SpecConveyer).                              *)
(***************************************************************************)
Asynchronous == ~IsSynchronous(conveyer[0])

SameShape(a, b) == a.shape = b.shape /\ a.dtype = b.dtype

\* the asynchronous call has settled which pair it uses
PairSettled == Asynchronous /\ cpc \in {"copy", "set", "append", "done"}

\* the number of the last finished transfer that issued a copy with the pair
LastIssue(pair) ==
    LET issued == {n \in 1..Len(log) : log[n].pair = pair /\ log[n].ret = pair[2]}
    IN  IF issued = {} THEN 0 ELSE CHOOSE n \in issued : \A m \in issued : m <= n

\* whether a copy that reads the pinned array is still in flight
InFlightFrom(pin) == \E n \in 1..Len(inflight) : inflight[n].src = pin.ref

\* C1 as written: on a fresh asynchronous Conveyer the second of two
\* transfers of same-shape arrays reuses the first one's pair and allocates
\* nothing.
C1_SecondCallReuses ==
    (Asynchronous /\ Len(log) >= 2 /\ SameShape(log[1].array, log[2].array))
        => (~log[2].allocated /\ log[2].pair = log[1].pair)

\* C1, amended: on a fresh asynchronous Conveyer, of three transfers of
\* same-shape arrays the second allocates the second pair and the third
\* reuses the first one's pair and allocates nothing.
C1_ThirdCallReuses ==
    (/\ Asynchronous /\ Len(log) >= 3
     /\ SameShape(log[1].array, log[2].array)
     /\ SameShape(log[1].array, log[3].array))
        => /\ log[1].allocated /\ log[2].allocated
           /\ log[2].pair # log[1].pair
           /\ ~log[3].allocated
           /\ log[3].pair = log[1].pair

C1_Witness ==
    /\ Asynchronous /\ Len(log) >= 3
    /\ SameShape(log[1].array, log[2].array)
    /\ SameShape(log[1].array, log[3].array)
    /\ log[3].ret = log[1].ret

\* C2: a step that allocates buffers is taken only after the device
\* synchronization of that same call, with no copy in flight.
C2_SyncBeforeAllocation ==
    [][Len(mem') > Len(mem) =>
          (cpc = "alloc" /\ "allocate" \in syncs /\ inflight = <<>>)]_vars

\* a pair is replaced because of a byte-size mismatch, after earlier copies
C2_Witness ==
    /\ Asynchronous /\ cpc = "copy" /\ allocated
    /\ popped[1] # None /\ Len(log) >= 2

\* C5 as written: the pair handed out for reuse is the least recently issued
\* one and no copy using it is in flight when it is accessed again.
C5_NoCopyInFlightOnReuse ==
    (Asynchronous /\ cpc = "copy" /\ ~allocated)
        => /\ \A n \in 1..Len(conveyer[0].array_set) :
                 conveyer[0].array_set[n] # NoPair
                    => LastIssue(popped) < LastIssue(conveyer[0].array_set[n])
           /\ ~InFlightFrom(pin_array)

\* C5, amended: the pair handed out for reuse is the least recently issued
\* one; no copy using it is in flight when it is accessed again if
\* synchronize was called since the previous transfer (the rotation itself
\* does not wait for the copy).
C5_LeastRecentlyIssued ==
    (Asynchronous /\ cpc = "copy" /\ ~allocated)
        => /\ LastIssue(popped) > 0
           /\ \A n \in 1..Len(conveyer[0].array_set) :
                 conveyer[0].array_set[n] # NoPair
                    => LastIssue(popped) < LastIssue(conveyer[0].array_set[n])
           /\ ("synchronize" \in syncs => ~InFlightFrom(pin_array))

\* a pair is reused while the other pair is in the rotation, after a
\* synchronize call
C5_Witness ==
    /\ Asynchronous /\ cpc = "copy" /\ ~allocated
    /\ "synchronize" \in syncs
    /\ Len(conveyer[0].array_set) = 1 /\ conveyer[0].array_set[1] # NoPair

\* C6: the popped pair is reused exactly when it exists and has the byte
\* size of the new array; otherwise the call allocates a new pinned array
\* and a new device array.
C6_ReuseIffSameByteSize ==
    PairSettled =>
        IF popped[1] # None /\ NBytes(mem[popped[1].ref]) = NBytes(array)
        THEN ~allocated /\ <<pin_array, cp_array>> = popped
        ELSE /\ allocated
             /\ pin_array # popped[1] /\ cp_array # popped[2]
             /\ pin_array # cp_array
             /\ \A n \in 1..Len(log) :
                   /\ log[n].pair[1] \notin {pin_array, cp_array}
                   /\ log[n].pair[2] \notin {pin_array, cp_array}

\* an existing pair of another byte size was discarded
C6_Witness ==
    /\ PairSettled /\ cpc = "set" /\ allocated
    /\ popped[1] # None /\ NBytes(mem[popped[1].ref]) # NBytes(array)

\* C10 as written: the list rotation and the two-slot ring buffer select the
\* same pair in every transfer and hold the same pairs, oldest first, after
\* every transfer.
C10_RingEquivalence ==
    Asynchronous =>
        /\ cpc \in {"sync", "alloc", "copy", "set", "append"} => popped = RingSelect
        /\ cpc = "idle" =>
              conveyer[0].array_set = <<ring[index + 1], ring[2 - index]>>

\* no transfer has raised so far
NoRaise == cpc # "raised" /\ \A n \in 1..Len(log) : ~IsRaise(log[n].ret)

\* the equivalence of C10 as long as no transfer raises
RingEquivalenceUnlessRaised == NoRaise => C10_RingEquivalence

(***************************************************************************)
(* SpecConcat: _concat_arrays applied to a batch of arrays of equal rank.  *)
(***************************************************************************)
\* the n-th example of a batch: its cells differ from one another and from
\* the other examples'; a float64 example holds fractional values
ExampleArray(n, shape, dtype) ==
    [shape |-> shape, dtype |-> dtype, dev |-> -1,
     data |-> [idx \in Indices(shape) |->
                 2 * (3 * n + Offset(idx, shape)) + (IF dtype = "int32" THEN 0 ELSE 1)]]

ConcatBatches ==
    UNION { { [n \in 1..len |-> ExampleArray(n, form[n][1], form[n][2])] :
                form \in [1..len -> [1..rank -> 1..MaxExtent] \X DTypes] } :
            len \in 1..MaxBatchLen, rank \in Ranks }

\* None, 0, -1, 0.5 and -1.5
ConcatPaddings == {None, Some(0), Some(-2), Some(1), Some(-3)}

InitConcat ==
    /\ InitIdle
    /\ stream = None /\ conveyer = <<>>
    /\ batch \in ConcatBatches
    /\ padding \in ConcatPaddings

CallConcatArrays ==
    /\ fn = ""
    /\ fn' = "_concat_arrays"
    /\ outcome' = _concat_arrays(batch, padding)
    /\ UNCHANGED <<runtimeVars, objectVars, pc, batch, device, padding, i, result,
                   calls, syncs, cpc, frameVars, log, ringVars>>

NextConcat == CallConcatArrays

SpecConcat == InitConcat /\ [][NextConcat]_vars

\* the largest extent of axis k over the examples
MaxExtentOf(arrays, k) ==
    CHOOSE e \in {arrays[n].shape[k] : n \in 1..Len(arrays)} :
        \A n \in 1..Len(arrays) : arrays[n].shape[k] <= e

\* the result's leading dimension is the batch length and the others are the
\* per-axis maxima
PaddedShape(arrays, r) ==
    /\ Len(r.shape) = Len(arrays[1].shape) + 1
    /\ r.shape[1] = Len(arrays)
    /\ \A k \in 1..Len(arrays[1].shape) : r.shape[k + 1] = MaxExtentOf(arrays, k)
    /\ DOMAIN r.data = Indices(r.shape)

\* C8 as written: with a padding value the result has the padded shape, the
\* cells inside example i's extent at row i equal its data and every other
\* cell equals the padding value.
C8_PaddedCellsVerbatim ==
    (fn = "_concat_arrays" /\ padding # None)
        => /\ PaddedShape(batch, outcome)
           /\ \A idx \in DOMAIN outcome.data :
                 LET src == batch[Head(idx) + 1]
                 IN  outcome.data[idx] =
                        IF Tail(idx) \in Indices(src.shape)
                        THEN src.data[Tail(idx)]
                        ELSE padding.v

\* C8, amended: the same, with the example's data and the padding value
\* converted to the dtype of the first example, which is the result's dtype.
C8_PaddedCellsCast ==
    (fn = "_concat_arrays" /\ padding # None)
        => /\ PaddedShape(batch, outcome)
           /\ outcome.dtype = batch[1].dtype
           /\ \A idx \in DOMAIN outcome.data :
                 LET src == batch[Head(idx) + 1]
                 IN  outcome.data[idx] =
                        IF Tail(idx) \in Indices(src.shape)
                        THEN Cast(batch[1].dtype, src.data[Tail(idx)])
                        ELSE Cast(batch[1].dtype, padding.v)

\* a ragged batch was padded: some cell holds the padding value and the
\* examples differ in dtype
C8_Witness ==
    /\ fn = "_concat_arrays" /\ padding # None
    /\ Len(batch) >= 2
    /\ batch[1].shape # batch[2].shape
    /\ batch[1].dtype # batch[2].dtype
    /\ \E idx \in DOMAIN outcome.data :
          Tail(idx) \notin Indices(batch[Head(idx) + 1].shape)

(***************************************************************************)
(* Properties of ConcatWithAsyncTransfer and concat_examples (Spec).       *)
(***************************************************************************)
\* a call of ConcatWithAsyncTransfer has ended
Ended == fn = "ConcatWithAsyncTransfer" /\ pc = "idle" /\ calls > 0

NonNegative(d) == d # None /\ d.v >= 0

IsRef(x) == "ref" \in DOMAIN x

\* the array a returned item stands for
Deref(x) == IF IsRef(x) THEN mem[x.ref] ELSE x

\* C3 as written: a call on a non-empty batch whose first example is a
\* mapping returns a mapping with the first example's keys; each value is
\* the concatenation of that key's values, sent through the channel
\* registered under the key.
C3_MappingResult ==
    (Ended /\ batch # <<>> /\ IsDict(batch[1]))
        => /\ IsDict(outcome)
           /\ DOMAIN outcome.dict = DOMAIN batch[1].dict
           /\ \A key \in DOMAIN batch[1].dict :
                 /\ key \in DOMAIN conveyer
                 /\ Deref(outcome.dict[key]).data =
                        _concat_arrays(Column(batch, key), padding[key]).data

\* C4: when a call on a tuple or mapping batch with a non-negative device
\* has returned, no copy issued during the call is in flight, and if the
\* call issued a copy it synchronized the device afterwards.
C4_CopiesDoneAtReturn ==
    (Ended /\ NonNegative(device) /\ (IsTuple(outcome) \/ IsDict(outcome)))
        => /\ \A n \in 1..Len(inflight) : inflight[n].call # calls
           /\ IsTuple(outcome) =>
                 ((\E k \in 1..Len(outcome.tuple) : IsRef(outcome.tuple[k]))
                     => "synchronize" \in syncs)

\* a two-slot tuple call with a non-negative device returned device buffers
\* that it did not have to allocate
C4_Witness ==
    /\ Ended /\ NonNegative(device) /\ IsTuple(outcome)
    /\ Len(outcome.tuple) = 2
    /\ IsRef(outcome.tuple[1]) /\ IsRef(outcome.tuple[2])
    /\ syncs = {"synchronize"}

\* C7: a call of either function with an empty batch raises the empty-batch
\* error and changes neither the stream, the channel registry nor any buffer.
C7_EmptyBatchRaisesFirst ==
    [][(calls' = calls + 1 /\ batch' = <<>>) =>
          /\ outcome' = Raise("ValueError")
          /\ pc' = "idle"
          /\ UNCHANGED <<stream, conveyer, mem, inflight>>]_vars

\* ConcatWithAsyncTransfer raised on an empty batch with a non-negative
\* device and still has no stream
C7_Witness ==
    /\ Ended /\ batch = <<>> /\ NonNegative(device)
    /\ outcome = Raise("ValueError")
    /\ stream = None /\ conveyer = <<>>

\* the running call is on a tuple batch with a non-negative device and has
\* not yet issued the copy of the slot it is at
BeforeCopy ==
    /\ fn = "ConcatWithAsyncTransfer" /\ NonNegative(device)
    /\ pc = "tuple_call" /\ cpc \in {"sync", "alloc", "copy", "set"}

\* C9 as written: no device synchronization of the call comes before one of
\* its copies.
C9_NoSyncBeforeCopy ==
    BeforeCopy => syncs = {}

\* C9, amended: the synchronize calls of the orchestrator all come after all
\* copies of the call; the only synchronization that can come before a copy
\* is the one a channel performs before it allocates a pair.
C9_OnlyAllocationSyncBeforeCopy ==
    BeforeCopy => "synchronize" \notin syncs

\* the copy of the second slot is about to be issued after a channel had to
\* allocate
C9_Witness ==
    BeforeCopy /\ self = 1 /\ cpc = "set" /\ syncs = {"allocate"}

(***************************************************************************)
(* Further properties of the Conveyer (SpecConveyer).                      *)
(***************************************************************************)
\* the Conveyer's device is None or negative, or its stream is None
SynchronousMode ==
    \/ conveyer[0].device = None
    \/ conveyer[0].device.v < 0
    \/ conveyer[0].stream = None

\* C11: a transfer call on a Conveyer whose device is None or negative or
\* whose stream is None returns within the call the synchronous placement of
\* its argument; it pops, allocates and pushes no pair, issues no copy and
\* does not synchronize the device.
C11_SynchronousTransfer ==
    [][(calls' = calls + 1 /\ SynchronousMode) =>
          /\ cpc' = "done"
          /\ ret' = to_device(conveyer[0].device, array')
          /\ conveyer' = conveyer
          /\ mem' = mem /\ inflight' = inflight
          /\ syncs' = syncs
          /\ popped' = None /\ allocated' = FALSE]_vars

\* a second transfer returned from a Conveyer that has a stream and a
\* negative device
C11_Witness ==
    /\ SynchronousMode
    /\ conveyer[0].stream # None /\ conveyer[0].device # None
    /\ Len(log) >= 1 /\ cpc = "done"
    /\ ret = to_device(conveyer[0].device, array)
    /\ conveyer[0].array_set = <<NoPair, NoPair>>

(***************************************************************************)
(* Further properties of ConcatWithAsyncTransfer (Spec).                   *)
(***************************************************************************)
\* where to_device puts a host array for the device argument d
PlacementFor(d) == IF NonNegative(d) THEN d.v ELSE -1

\* C12 as written: the arrays a ConcatWithAsyncTransfer call on a tuple batch
\* returns are placed according to the device argument of that call,
\* whatever the device arguments of the earlier calls were.
C12_PlacedByCallDevice ==
    (Ended /\ fn = "ConcatWithAsyncTransfer" /\ IsTuple(outcome))
        => \A k \in 1..Len(outcome.tuple) :
              Deref(outcome.tuple[k]).dev = PlacementFor(device)

(***************************************************************************)
(* Further properties of the Conveyer (SpecConveyer), continued.           *)
(***************************************************************************)
\* whether a copy that writes the device array is still in flight
InFlightTo(cp) == \E n \in 1..Len(inflight) : inflight[n].dst = cp.ref

\* C13 as written: the device buffer an asynchronous transfer returns has
\* the shape and dtype of the array passed to that transfer and, once its
\* copy is done, that array's contents.
C13_ReturnedBufferMatchesArray ==
    (Asynchronous /\ cpc = "done")
        => /\ mem[ret.ref].shape = array.shape
           /\ mem[ret.ref].dtype = array.dtype
           /\ ~InFlightTo(ret) => mem[ret.ref].data = array.data

(***************************************************************************)
(* Further properties of ConcatWithAsyncTransfer (Spec), continued.        *)
(***************************************************************************)
\* a Conveyer call of a ConcatWithAsyncTransfer call has just overwritten a
\* pinned array it reuses (line 282) and has not yet issued its copy
OverwroteReused ==
    /\ fn = "ConcatWithAsyncTransfer" /\ pc = "tuple_call"
    /\ cpc = "set" /\ ~allocated

\* C14 as written: whenever a channel overwrites a reused pinned host buffer
\* during a ConcatWithAsyncTransfer call, the copy issued earlier from that
\* buffer is no longer in flight, also after calls that raised partway.
C14_NoOverwriteUnderCopy ==
    OverwroteReused => ~InFlightFrom(pin_array)

(***************************************************************************)
(* The rotation of the Conveyer (SpecConveyer).                            *)
(***************************************************************************)
\* C15 as written: the device buffer an asynchronous transfer returned is
\* not the device buffer of the pair the next transfer uses.
C15_ConsecutiveTransfersDistinct ==
    Asynchronous =>
        \A n \in 1..(Len(log) - 1) :
            IsRef(log[n].ret) => log[n + 1].pair[2] # log[n].ret

\* C16 as written: between the transfer calls of an asynchronous Conveyer
\* its rotation holds exactly two pair slots, also after calls that raised.
C16_TwoPairSlots ==
    (Asynchronous /\ cpc = "idle") => Len(conveyer[0].array_set) = 2

====
